---- MODULE Spec2Model ----
(***************************************************************************)
(* A model of the terminal session service:                                *)
(*   app/session_manager.py  SessionManager (the registry)                 *)
(*   app/terminal_api.py     TerminalAPI    (one session)                  *)
(*   app/server.py           the HTTP endpoints over the registry          *)
(*                                                                         *)
(* Spec         the registry driven by concurrent callers.  Every method   *)
(*              body that runs under self._lock is one action; the parts   *)
(*              of create_session that run outside the lock are separate   *)
(*              steps of the calling thread.                               *)
(* SpecSession  one TerminalAPI object driven directly by concurrent       *)
(*              callers and its reader thread(s), one action per           *)
(*              statement, since TerminalAPI takes no lock at all.         *)
(* SpecServer   a registry of two sessions behind the endpoints of         *)
(*              server.py: a request is served call by call, and a kill or *)
(*              a reader's death may come between two calls.               *)
(* SpecFilter   _filter_output applied to one chunk, the chunk being any    *)
(*              run of at most MaxTokens pieces of control sequences.      *)
(* SpecLogged   the reader thread of one running TerminalAPI object, with  *)
(*              or without a log_path, statement by statement, and callers *)
(*              that drain the buffer meanwhile.                           *)
(* SpecHistory  a registry of two sessions whose callers record commands,  *)
(*              ask for a history and use the list they were handed.       *)
(* SpecBuffer   the output buffer of one running TerminalAPI object: the   *)
(*              reader thread appends, a caller peeks; it starts from an   *)
(*              empty deque or from one that is one chunk short of full.   *)
(***************************************************************************)
EXTENDS Integers, Sequences, FiniteSets, TLC

\* ------------------------------------------------------------------ bounds

\* uuid4() calls made in one run of the registry
MaxSessions == 2
\* record_command calls that append, in one run of the registry
MaxRecords == 2
\* method calls begun on the one TerminalAPI object of SpecSession
MaxCalls == 3
\* non-empty Driver reads in SpecSession
MaxReads == 1
\* pieces an input chunk of SpecFilter is made of
MaxTokens == 2
\* non-empty Driver reads in SpecLogged
MaxDriven == 3
\* non-empty Driver reads in SpecBuffer
MaxAppends == 4
\* the largest `lines` passed to get_latest_output
MaxLines == 2

\* ------------------------------------------------------- program constants

\* deque(maxlen=10000)
maxlen == 10000

\* ---------------------------------------------------------- Python values

PyNone == [tag |-> "None"]
PyList(items) == [tag |-> "list", items |-> items]

\* The "no id" result of _resolve_id (Optional[str]).
NoId == "None"

\* An insertion-ordered dict (Python >= 3.7): a sequence of <<key, value>>.
Keys(d) == { d[i][1] : i \in 1..Len(d) }
KeySeq(d) == [ i \in 1..Len(d) |-> d[i][1] ]
Has(d, k) == \E i \in 1..Len(d) : d[i][1] = k
Get(d, k) == d[CHOOSE i \in 1..Len(d) : d[i][1] = k][2]
Put(d, k, v) ==
    IF Has(d, k)
    THEN [ i \in 1..Len(d) |-> IF d[i][1] = k THEN <<k, v>> ELSE d[i] ]
    ELSE Append(d, <<k, v>>)
Del(d, k) == SelectSeq(d, LAMBDA kv : kv[1] # k)

\* ------------------------------------------------------------ identifiers

\* str(uuid.uuid4()): the k-th call yields a fresh string.
UUIDS == << "u1", "u2", "u3", "u4" >>
uuid4(k) == UUIDS[k]
\* f"Session-{session_id[:8]}"
DefaultNames == << "Session-u1", "Session-u2", "Session-u3", "Session-u4" >>
DefaultName(k) == DefaultNames[k]

\* Names a caller gives to a session, and commands it sends.
UserNames == { "t1" }
\* An identifier no session is ever named.
Unknown == "zz"
Commands == { "ls", "cd" }
Callers == { "c1" }
\* Threads that call the methods of one TerminalAPI object directly.
Users == { "a", "b" }

\* ------------------------------------------------------------------- text
\* A text is a sequence of characters; a control character is named.

ESC == "ESC"
BEL == "BEL"
CR == "CR"
Digits == { "0", "1", "2", "3", "4", "5", "6", "7", "8", "9" }

\* ''.join(chunks[i..j]), by halves, so that a full deque can be joined.
RECURSIVE JoinRange(_, _, _)
JoinRange(chunks, i, j) ==
    IF i > j THEN << >>
    ELSE IF i = j THEN chunks[i]
    ELSE JoinRange(chunks, i, (i + j) \div 2) \o JoinRange(chunks, (i + j) \div 2 + 1, j)

\* ''.join(chunks)
Join(chunks) == JoinRange(chunks, 1, Len(chunks))

\* Regular expressions, as far as _filter_output uses them: a sequence of
\* items, each one character of a set, one or more characters of a set
\* (greedy), or any number of characters outside a set (greedy).  In every
\* pattern of _filter_output the item after a repetition starts with a
\* character the repetition cannot take, so the greedy match is the match.
Lit(c) == [ k |-> "one", set |-> { c } ]
OneOf(S) == [ k |-> "one", set |-> S ]
Plus(S) == [ k |-> "plus", set |-> S ]
StarNot(S) == [ k |-> "starnot", set |-> S ]
Word(w) == [ i \in 1..Len(w) |-> Lit(w[i]) ]

\* The number of characters of s from position i on that are in S (inS) or
\* outside S (~inS).
RECURSIVE Run(_, _, _, _)
Run(s, i, S, inS) ==
    IF i <= Len(s) /\ ((s[i] \in S) = inS) THEN 1 + Run(s, i + 1, S, inS) ELSE 0

\* The position after the match of pat[j..] at position i of s; 0: no match.
RECURSIVE MatchEnd(_, _, _, _)
MatchEnd(pat, j, s, i) ==
    IF j > Len(pat) THEN i
    ELSE IF pat[j].k = "one"
         THEN IF i <= Len(s) /\ s[i] \in pat[j].set
              THEN MatchEnd(pat, j + 1, s, i + 1) ELSE 0
    ELSE IF pat[j].k = "plus"
         THEN IF Run(s, i, pat[j].set, TRUE) >= 1
              THEN MatchEnd(pat, j + 1, s, i + Run(s, i, pat[j].set, TRUE)) ELSE 0
    ELSE MatchEnd(pat, j + 1, s, i + Run(s, i, pat[j].set, FALSE))

RECURSIVE SubFrom(_, _, _)
SubFrom(pat, s, i) ==
    IF i > Len(s) THEN << >>
    ELSE IF MatchEnd(pat, 1, s, i) > 0
         THEN SubFrom(pat, s, MatchEnd(pat, 1, s, i))
         ELSE << s[i] >> \o SubFrom(pat, s, i + 1)

\* re.sub(pat, '', s) and, for a pattern of single characters, s.replace(pat, '')
re_sub(pat, s) == SubFrom(pat, s, 1)

RECURSIVE SubAll(_, _)
SubAll(pats, s) ==
    IF pats = << >> THEN s ELSE SubAll(Tail(pats), re_sub(Head(pats), s))

CSI == << Lit(ESC), Lit("[") >>
Mode(digits) == CSI \o << Lit("?") >> \o Word(digits) \o << OneOf({ "h", "l" }) >>

\* The substitutions of _filter_output, in the order it applies them.
FilterPatterns == <<
    Word(<< "2", "3", ";", "2", "4", ";", "2", "8", ";", "3", "2", ";", "4", "2", "c" >>),
    CSI \o << Lit("?"), Plus(Digits \cup { ";" }), Lit("c") >>,
    CSI \o << Plus(Digits), Lit(";"), Plus(Digits), Lit("R") >>,
    Mode(<< "2", "0", "0", "4" >>),
    Mode(<< "1", "0", "4", "9" >>),
    Mode(<< "1" >>),
    Mode(<< "2", "5" >>),
    Mode(<< "1", "0", "0", "0" >>),
    Mode(<< "1", "0", "0", "2" >>),
    Mode(<< "1", "0", "0", "3" >>),
    Mode(<< "1", "0", "0", "6" >>),
    CSI \o << Lit("s") >>,
    CSI \o << Lit("u") >>,
    << Lit(ESC), Lit("7") >>,
    << Lit(ESC), Lit("8") >>,
    << Lit(ESC), Lit("]"), StarNot({ BEL }), Lit(BEL) >>,
    << Lit(ESC), Lit("]"), StarNot({ ESC }), Lit(ESC), Lit("\\"), Lit("\\") >>,
    << Lit("ETB") >>,
    << Lit("CAN") >>,
    << Lit("FS") >> >>

\* TerminalAPI._filter_output
_filter_output(data) == IF data = << >> THEN data ELSE SubAll(FilterPatterns, data)

\* The value of filter_out while _filter_output has not returned.
Unfiltered == "unfiltered"

\* Pieces of what a terminal sends: the bracketed-paste toggle whole; heads
\* and final characters of a mode toggle, a Device-Attributes response, a
\* cursor-position report and an OSC sequence with its two terminators;
\* cursor save; ETB; visible text.
Paste == << ESC, "[", "?", "2", "0", "0", "4", "h" >>
\* A window-title OSC sequence, whole, ended by BEL and by ESC backslash.
TitleBel == << ESC, "]", "0", ";", "t", BEL >>
TitleST == << ESC, "]", "0", ";", "t", ESC, "\\" >>
Hello == << "h", "e", "l", "l", "o" >>
Tokens == {
    Paste, TitleBel, TitleST,
    << ESC, "[", "?", "2", "5" >>, << "l" >>,
    << ESC, "[", "?", "6", "1", ";", "6" >>, << "c" >>,
    << ESC, "[", "1", "2", ";", "4" >>, << "R" >>,
    << ESC, "]", "0", ";", "t" >>, << BEL >>, << ESC, "\\" >>,
    << ESC, "[", "s" >>,
    << "ETB" >>,
    Hello }

\* The chunks made of at most n pieces.
RECURSIVE ChunksOf(_)
ChunksOf(n) ==
    IF n = 0 THEN { << >> }
    ELSE ChunksOf(n - 1) \cup { c \o t : c \in ChunksOf(n - 1), t \in Tokens }

Chunks == ChunksOf(MaxTokens)

\* What one non-blocking read of the Driver may return, besides nothing.
DriverData == { << "a" >>, << "b" >>, << ESC, "[", "s" >> }
\* What callers write and send.
Texts == { << "x" >> }
Lines == { << "l", "s" >> }

VARIABLES
    \* SessionManager
    _sessions,      \* dict session_id -> TerminalAPI (its object id)
    _history,       \* dict session_id -> list of commands
    _metadata,      \* dict session_id -> [name]
    terminals,      \* the TerminalAPI objects made by create_session
    nextUuid,       \* number of uuid4() calls so far, plus one
    recorded,       \* number of history entries appended so far
    pc,             \* each caller's position in create_session
    loc,            \* each caller's locals in create_session
    issued,         \* the session ids create_session has returned
    killed          \* the session ids a kill_session that returned True removed

regVars == << _sessions, _history, _metadata, terminals, nextUuid, recorded,
              pc, loc,
              issued, killed >>

VARIABLES
    \* one TerminalAPI object, its reader threads and its direct callers
    process,        \* self.process: 0 for None, k for the k-th PTY object
    _running,       \* self._running
    _output_thread, \* self._output_thread: 0 for None, k for the k-th Thread
    _output_buffer, \* self._output_buffer: the deque of filtered chunks
    threads,        \* the Thread objects: position in _read_output_loop, data read
    ptys,           \* number of PTY objects made so far
    spc,            \* each direct caller's position in the method it runs
    sloc,           \* each direct caller's local `output` in read_output
    outcome,        \* how each direct caller's last call ended
    calls,          \* number of method calls begun
    reads,          \* number of non-empty Driver reads
    appended,       \* every chunk a reader has appended to the buffer, in order
    returned,       \* every text a read_output has returned, in order
    written,        \* every text written to a PTY, in order
    entered,        \* times _running went from False to True
    left,           \* times _running went from True to False
    cleared,        \* a send_command clear or a capacity eviction has happened
    mark            \* per caller in send_command: chunks appended before its clear

sesVars == << process, _running, _output_thread, _output_buffer, threads, ptys,
              spc, sloc, outcome, calls, reads, appended, returned, written,
              entered, left, cleared, mark >>

\* server.py: the requests being served by the endpoints.
VARIABLES
    req             \* per HTTP client: the endpoint it is in, where, its locals

srvVars == << req >>

\* _filter_output, called on its own.
VARIABLES
    filter_in,      \* the argument `data`
    filter_out      \* what the call returned, or Unfiltered before it has

fltVars == << filter_in, filter_out >>

\* The session log of a TerminalAPI object.
VARIABLES
    log_path,       \* self.log_path: FALSE for None
    logged,         \* the chunks written to the file at log_path, in order
    driven,         \* every non-empty text the Driver returned, in order
    failures        \* number of log writes that raised

logVars == << log_path, logged, driven, failures >>

\* What a caller of get_history was handed.
VARIABLES
    held            \* per caller: the list object it holds, or NoList

hstVars == << held >>

vars == << regVars, sesVars, srvVars, fltVars, logVars, hstVars >>

\* ------------------------------------------------- TerminalAPI, as the
\* registry sees it: the stop flag, the reader thread and the PTY handle.

\* TerminalAPI.__init__
TerminalAPI == [ _running |-> FALSE, _output_thread |-> "none", process |-> FALSE ]

\* TerminalAPI.start, on success: the PTY is spawned and the reader runs.
start(t) == [ _running |-> TRUE, _output_thread |-> "alive", process |-> TRUE ]

\* TerminalAPI.is_alive
is_alive(t) == t._running /\ t._output_thread = "alive"

\* TerminalAPI.close. The reader thread sees the stop flag in a step of its
\* own (reader_stops), during the join of line 233 or after its timeout.
close(t) ==
    IF t._running
    THEN [ _running |-> FALSE, _output_thread |-> t._output_thread, process |-> FALSE ]
    ELSE t

\* ---------------------------------------------------------- SessionManager

NameHits(identifier) ==
    { i \in 1..Len(_metadata) : _metadata[i][2].name = identifier }
First(S) == CHOOSE i \in S : \A j \in S : i <= j

\* SessionManager._resolve_id
_resolve_id(identifier) ==
    IF Has(_sessions, identifier)
    THEN identifier
    ELSE IF NameHits(identifier) = {}
         THEN NoId
         ELSE _metadata[First(NameHits(identifier))][1]

Last(S) == CHOOSE i \in S : \A j \in S : i >= j

\* A get_session that keeps looping after a name match: the last match wins.
get_session_last_match(identifier) ==
    IF Has(_sessions, identifier)
    THEN Get(_sessions, identifier)
    ELSE IF NameHits(identifier) = {}
         THEN NoId
         ELSE Get(_sessions, _metadata[Last(NameHits(identifier))][1])

\* SessionManager.get_session: the TerminalAPI object, or NoId for None.
get_session(identifier) ==
    IF Has(_sessions, identifier)
    THEN Get(_sessions, identifier)
    ELSE IF NameHits(identifier) = {}
         THEN NoId
         ELSE Get(_sessions, _metadata[First(NameHits(identifier))][1])

\* SessionManager.list_sessions
list_sessions ==
    [ i \in 1..Len(_sessions) |->
        [ id |-> _sessions[i][1],
          name |-> IF Has(_metadata, _sessions[i][1])
                   THEN Get(_metadata, _sessions[i][1]).name ELSE "Unknown",
          alive |-> is_alive(Get(terminals, _sessions[i][2])) ] ]

\* SessionManager.get_history
get_history(identifier) ==
    IF _resolve_id(identifier) # NoId
    THEN IF Has(_history, _resolve_id(identifier))
         THEN PyList(Get(_history, _resolve_id(identifier)))
         ELSE PyList(<< >>)
    ELSE PyList(<< >>)

\* server.get_history: the status of GET /sessions/{id}/history
history_status(history) == IF history = PyNone THEN 404 ELSE 200

\* What a caller may pass as an identifier: a name, or an id it was given.
Identifiers == UserNames \cup issued \cup { Unknown }

NoLocals == [ session_id |-> NoId, name |-> NoId ]

\* The HTTP clients, and a client that is in no request: the status is that
\* of its last response (0 before the first).
Clients == { "h1" }
NoRequest == [ endpoint |-> "none", at |-> "idle", session_id |-> NoId,
               session |-> NoId, command |-> NoId, status |-> 0 ]
\* What a raw-input request carries: a keystroke.
RawInputs == { "j" }

\* A caller's reference to a Python list: none; the list object that is the
\* value of _history[sid]; or a list object only the caller refers to.
NoList == [ kind |-> "none", sid |-> NoId, items |-> << >> ]
Shared(sid) == [ kind |-> "shared", sid |-> sid, items |-> << >> ]
Own(items) == [ kind |-> "own", sid |-> NoId, items |-> items ]

\* What a caller puts into a list it was handed.
CallerItems == { "mine" }

\* SessionManager.__init__
InitRegistry ==
    /\ _sessions = << >>
    /\ _history = << >>
    /\ _metadata = << >>
    /\ terminals = << >>
    /\ nextUuid = 1
    /\ recorded = 0
    /\ pc = [ c \in Callers |-> "idle" ]
    /\ loc = [ c \in Callers |-> NoLocals ]
    /\ issued = {}
    /\ killed = {}

\* TerminalAPI.__init__, lines 29-32
InitSession ==
    /\ process = 0
    /\ _output_buffer = << >>
    /\ _running = FALSE
    /\ _output_thread = 0
    /\ threads = << >>
    /\ ptys = 0
    /\ spc = [ u \in Users |-> "idle" ]
    /\ sloc = [ u \in Users |-> << >> ]
    /\ outcome = [ u \in Users |-> "none" ]
    /\ calls = 0
    /\ reads = 0
    /\ appended = << >>
    /\ returned = << >>
    /\ written = << >>
    /\ entered = 0
    /\ left = 0
    /\ cleared = FALSE
    /\ mark = [ u \in Users |-> 0 ]

\* server.py, line 8: no request has come in yet.
InitServer ==
    /\ req = [ h \in Clients |-> NoRequest ]

\* No call of _filter_output on its own.
InitFilter ==
    /\ filter_in = << >>
    /\ filter_out = Unfiltered

\* TerminalAPI.__init__, line 28, with the default of line 15: no log.
InitLog ==
    /\ log_path = FALSE
    /\ logged = << >>
    /\ driven = << >>
    /\ failures = 0

\* No caller has been handed a history.
InitHeld ==
    /\ held = [ c \in Callers |-> NoList ]

Init == InitRegistry /\ InitSession /\ InitServer /\ InitFilter /\ InitLog /\ InitHeld

\* create_session, lines 35-53: draw the id, default the name, construct.
create_session_begin(c, name) ==
    /\ pc[c] = "idle"
    /\ nextUuid <= MaxSessions
    /\ LET session_id == uuid4(nextUuid) IN
        /\ loc' = [ loc EXCEPT ![c] =
                      [ session_id |-> session_id,
                        name |-> IF name = "" THEN DefaultName(nextUuid) ELSE name ] ]
        /\ terminals' = Put(terminals, session_id, TerminalAPI)
    /\ nextUuid' = nextUuid + 1
    /\ pc' = [ pc EXCEPT ![c] = "start" ]
    /\ UNCHANGED << _sessions, _history, _metadata, recorded, issued, killed >>

\* create_session, line 55: terminal.start() returns.
create_session_start(c) ==
    /\ pc[c] = "start"
    /\ terminals' = Put(terminals, loc[c].session_id,
                        start(Get(terminals, loc[c].session_id)))
    /\ pc' = [ pc EXCEPT ![c] = "cleanup" ]
    /\ UNCHANGED << _sessions, _history, _metadata, nextUuid, recorded, loc,
                    issued, killed >>

\* create_session, line 55: terminal.start() raises (the PTY cannot be spawned).
create_session_start_raises(c) ==
    /\ pc[c] = "start"
    /\ pc' = [ pc EXCEPT ![c] = "idle" ]
    /\ loc' = [ loc EXCEPT ![c] = NoLocals ]
    /\ UNCHANGED << _sessions, _history, _metadata, terminals, nextUuid,
                    recorded, issued, killed >>

\* create_session, line 58: _perform_startup_cleanup returns.
create_session_cleanup(c) ==
    /\ pc[c] = "cleanup"
    /\ pc' = [ pc EXCEPT ![c] = "register" ]
    /\ UNCHANGED << _sessions, _history, _metadata, terminals, nextUuid,
                    recorded, loc, issued, killed >>

\* A create_session that puts the terminal in the session map before the
\* startup cleanup, which then raises.
create_session_cleanup_raises_registered(c) ==
    /\ pc[c] = "cleanup"
    /\ _sessions' = Put(_sessions, loc[c].session_id, loc[c].session_id)
    /\ pc' = [ pc EXCEPT ![c] = "idle" ]
    /\ loc' = [ loc EXCEPT ![c] = NoLocals ]
    /\ UNCHANGED << _history, _metadata, terminals, nextUuid,
                    recorded, issued, killed >>

\* create_session, line 58: terminal.write raises in _perform_startup_cleanup.
create_session_cleanup_raises(c) ==
    /\ pc[c] = "cleanup"
    /\ pc' = [ pc EXCEPT ![c] = "idle" ]
    /\ loc' = [ loc EXCEPT ![c] = NoLocals ]
    /\ UNCHANGED << _sessions, _history, _metadata, terminals, nextUuid,
                    recorded, issued, killed >>

\* create_session, lines 60-69: register under the lock and return the id.
create_session_register(c) ==
    /\ pc[c] = "register"
    /\ _sessions' = Put(_sessions, loc[c].session_id, loc[c].session_id)
    /\ _history' = Put(_history, loc[c].session_id, << >>)
    /\ _metadata' = Put(_metadata, loc[c].session_id, [ name |-> loc[c].name ])
    /\ pc' = [ pc EXCEPT ![c] = "idle" ]
    /\ loc' = [ loc EXCEPT ![c] = NoLocals ]
    /\ issued' = issued \cup { loc[c].session_id }
    /\ UNCHANGED << terminals, nextUuid, recorded, killed >>

\* A record_command that appends to one shared history: every session's.
record_command_shared(identifier, command) ==
    LET sid == _resolve_id(identifier) IN
    /\ IF sid # NoId /\ Has(_history, sid)
       THEN /\ recorded < MaxRecords
            /\ _history' = [ i \in 1..Len(_history) |->
                               << _history[i][1], Append(_history[i][2], command) >> ]
            /\ recorded' = recorded + 1
       ELSE UNCHANGED << _history, recorded >>
    /\ UNCHANGED << _sessions, _metadata, terminals, nextUuid, pc, loc, issued, killed >>

\* SessionManager.record_command
record_command(identifier, command) ==
    LET sid == _resolve_id(identifier) IN
    /\ IF sid # NoId /\ Has(_history, sid)
       THEN /\ recorded < MaxRecords
            /\ _history' = Put(_history, sid, Append(Get(_history, sid), command))
            /\ recorded' = recorded + 1
       ELSE UNCHANGED << _history, recorded >>
    /\ UNCHANGED << _sessions, _metadata, terminals, nextUuid, pc, loc, issued, killed >>

\* get_session, list_sessions and get_history (and server.get_history over
\* it) only read the registry under the lock: what they return is the value
\* of the operators above in the state they are called in, and the call
\* itself leaves every variable as it is.
registry_read(identifier) ==
    /\ get_session(identifier) \in Keys(terminals) \cup { NoId }
    /\ history_status(get_history(identifier)) \in { 200, 404 }
    /\ Len(list_sessions) = Len(_sessions)
    /\ UNCHANGED << _sessions, _history, _metadata, terminals, nextUuid,
                    recorded, pc, loc, issued, killed >>

\* SessionManager.kill_session, lines 153-154 and 162-163: what it returns.
kill_returns(identifier) ==
    _resolve_id(identifier) # NoId /\ Has(_sessions, _resolve_id(identifier))

\* A kill_session without lines 159-160: the history entry stays.
kill_session_keeps_history(identifier) ==
    LET session_id == _resolve_id(identifier) IN
    /\ IF kill_returns(identifier)
       THEN /\ terminals' =
                 Put(terminals, Get(_sessions, session_id),
                     close(Get(terminals, Get(_sessions, session_id))))
            /\ _sessions' = Del(_sessions, session_id)
            /\ _metadata' = IF Has(_metadata, session_id)
                            THEN Del(_metadata, session_id) ELSE _metadata
            /\ killed' = killed \cup { session_id }
            /\ UNCHANGED _history
       ELSE UNCHANGED << _sessions, _history, _metadata, terminals, killed >>
    /\ UNCHANGED << nextUuid, recorded, pc, loc, issued >>

\* A kill_session that closes the terminal and removes nothing.
kill_session_only_closes(identifier) ==
    LET session_id == _resolve_id(identifier) IN
    /\ IF kill_returns(identifier)
       THEN /\ terminals' =
                 Put(terminals, Get(_sessions, session_id),
                     close(Get(terminals, Get(_sessions, session_id))))
            /\ killed' = killed \cup { session_id }
            /\ UNCHANGED << _sessions, _history, _metadata >>
       ELSE UNCHANGED << _sessions, _history, _metadata, terminals, killed >>
    /\ UNCHANGED << nextUuid, recorded, pc, loc, issued >>

\* SessionManager.kill_session
kill_session(identifier) ==
    LET session_id == _resolve_id(identifier) IN
    /\ IF kill_returns(identifier)
       THEN /\ terminals' =
                 Put(terminals, Get(_sessions, session_id),
                     close(Get(terminals, Get(_sessions, session_id))))
            /\ _sessions' = Del(_sessions, session_id)
            /\ _history' = IF Has(_history, session_id)
                           THEN Del(_history, session_id) ELSE _history
            /\ _metadata' = IF Has(_metadata, session_id)
                            THEN Del(_metadata, session_id) ELSE _metadata
            /\ killed' = killed \cup { session_id }
       ELSE UNCHANGED << _sessions, _history, _metadata, terminals, killed >>
    /\ UNCHANGED << nextUuid, recorded, pc, loc, issued >>

\* SessionManager.cleanup_all
cleanup_all ==
    /\ terminals' = [ i \in 1..Len(terminals) |->
                        IF \E j \in 1..Len(_sessions) : _sessions[j][2] = terminals[i][1]
                        THEN << terminals[i][1],
                                close(terminals[i][2]) >>
                        ELSE terminals[i] ]
    /\ _sessions' = << >>
    /\ _history' = << >>
    /\ _metadata' = << >>
    /\ UNCHANGED << nextUuid, recorded, pc, loc, issued, killed >>

\* A reader that takes its session out of the registry when its read raises.
reader_read_error_reaps(t) ==
    /\ Get(terminals, t)._running
    /\ Get(terminals, t)._output_thread = "alive"
    /\ terminals' = Put(terminals, t,
                        [ Get(terminals, t) EXCEPT !._output_thread = "dead" ])
    /\ _sessions' = IF Has(_sessions, t) THEN Del(_sessions, t) ELSE _sessions
    /\ _history' = IF Has(_history, t) THEN Del(_history, t) ELSE _history
    /\ _metadata' = IF Has(_metadata, t) THEN Del(_metadata, t) ELSE _metadata
    /\ UNCHANGED << nextUuid, recorded, pc, loc, issued, killed >>

\* _read_output_loop, lines 132-135: the Driver read raises, the reader exits.
reader_read_error(t) ==
    /\ Get(terminals, t)._running
    /\ Get(terminals, t)._output_thread = "alive"
    /\ terminals' = Put(terminals, t,
                        [ Get(terminals, t) EXCEPT !._output_thread = "dead" ])
    /\ UNCHANGED << _sessions, _history, _metadata, nextUuid, recorded, pc, loc,
                    issued, killed >>

\* _read_output_loop, line 112: a reader that outlived close()'s join sees
\* the stop flag and exits.
reader_stops(t) ==
    /\ ~Get(terminals, t)._running
    /\ Get(terminals, t)._output_thread = "alive"
    /\ terminals' = Put(terminals, t,
                        [ Get(terminals, t) EXCEPT !._output_thread = "dead" ])
    /\ UNCHANGED << _sessions, _history, _metadata, nextUuid, recorded, pc, loc,
                    issued, killed >>

Next ==
    \/ \E c \in Callers, name \in UserNames \cup issued \cup { "" } :
          create_session_begin(c, name) /\ UNCHANGED << sesVars, srvVars, fltVars, logVars, hstVars >>
    \/ \E c \in Callers :
          create_session_start(c) /\ UNCHANGED << sesVars, srvVars, fltVars, logVars, hstVars >>
    \/ \E c \in Callers :
          create_session_start_raises(c) /\ UNCHANGED << sesVars, srvVars, fltVars, logVars, hstVars >>
    \/ \E c \in Callers :
          create_session_cleanup(c) /\ UNCHANGED << sesVars, srvVars, fltVars, logVars, hstVars >>
    \/ \E c \in Callers :
          create_session_cleanup_raises(c) /\ UNCHANGED << sesVars, srvVars, fltVars, logVars, hstVars >>
    \/ \E c \in Callers :
          create_session_register(c) /\ UNCHANGED << sesVars, srvVars, fltVars, logVars, hstVars >>
    \/ \E identifier \in Identifiers, command \in Commands :
          record_command(identifier, command) /\ UNCHANGED << sesVars, srvVars, fltVars, logVars, hstVars >>
    \/ \E identifier \in Identifiers :
          registry_read(identifier) /\ UNCHANGED << sesVars, srvVars, fltVars, logVars, hstVars >>
    \/ \E identifier \in Identifiers :
          kill_session(identifier) /\ UNCHANGED << sesVars, srvVars, fltVars, logVars, hstVars >>
    \/ cleanup_all /\ UNCHANGED << sesVars, srvVars, fltVars, logVars, hstVars >>
    \/ \E t \in Keys(terminals) :
          reader_read_error(t) /\ UNCHANGED << sesVars, srvVars, fltVars, logVars, hstVars >>
    \/ \E t \in Keys(terminals) :
          reader_stops(t) /\ UNCHANGED << sesVars, srvVars, fltVars, logVars, hstVars >>

Spec == Init /\ [][Next]_vars

\* ------------------------------------------ TerminalAPI, statement by
\* statement: no method of TerminalAPI takes a lock, so another thread may
\* run between any two statements.

\* A caller is in a call (outcome "called") from its first statement until
\* it returns ("ok") or raises (the exception's name).
Begin(u) == spc[u] = "idle" /\ calls < MaxCalls
Goto(u, label) ==
    /\ spc' = [ spc EXCEPT ![u] = label ]
    /\ outcome' = [ outcome EXCEPT ![u] = "called" ]
Ends(u, how) ==
    /\ spc' = [ spc EXCEPT ![u] = "idle" ]
    /\ outcome' = [ outcome EXCEPT ![u] = how ]

\* A deque that refuses the new chunk once it is full.
deque_append_drops_newest(buffer, chunk) ==
    IF Len(buffer) = maxlen THEN buffer ELSE Append(buffer, chunk)

\* deque.append with maxlen: a full deque drops its oldest chunk.
deque_append(buffer, chunk) ==
    IF Len(buffer) = maxlen THEN Append(Tail(buffer), chunk) ELSE Append(buffer, chunk)

\* A start that asks is_alive() instead of _running.
start_check_is_alive(u) ==
    /\ Begin(u)
    /\ calls' = calls + 1
    /\ IF _running /\ _output_thread # 0 /\ threads[_output_thread].pc # "done"
       THEN Ends(u, "AlreadyRunning")
       ELSE Goto(u, "start_spawn")
    /\ UNCHANGED << process, _running, _output_thread, _output_buffer, threads,
                    ptys, sloc, reads, appended, returned, written, entered,
                    left, cleared, mark >>

\* start, lines 139-140: the AlreadyRunning check.
start_check(u) ==
    /\ Begin(u)
    /\ calls' = calls + 1
    /\ IF _running
       THEN Ends(u, "AlreadyRunning")
       ELSE Goto(u, "start_spawn")
    /\ UNCHANGED << process, _running, _output_thread, _output_buffer, threads,
                    ptys, sloc, reads, appended, returned, written, entered,
                    left, cleared, mark >>

\* start, lines 144-145: the PTY is made and the shell spawned.
start_spawn(u) ==
    /\ spc[u] = "start_spawn"
    /\ ptys' = ptys + 1
    /\ process' = ptys + 1
    /\ Goto(u, "start_flag")
    /\ UNCHANGED << _running, _output_thread, _output_buffer, threads, sloc,
                    calls, reads, appended, returned, written, entered,
                    left, cleared, mark >>

\* start, lines 144-145: the PTY is made and spawn raises.
start_spawn_raises(u) ==
    /\ spc[u] = "start_spawn"
    /\ ptys' = ptys + 1
    /\ process' = ptys + 1
    /\ Ends(u, "SpawnError")
    /\ UNCHANGED << _running, _output_thread, _output_buffer, threads, sloc,
                    calls, reads, appended, returned, written, entered, left,
                    cleared, mark >>

\* start, line 148
start_flag(u) ==
    /\ spc[u] = "start_flag"
    /\ _running' = TRUE
    /\ entered' = IF _running THEN entered ELSE entered + 1
    /\ Goto(u, "start_thread")
    /\ UNCHANGED << process, _output_thread, _output_buffer, threads, ptys,
                    sloc, calls, reads, appended, returned, written,
                    left, cleared, mark >>

\* start, line 149
start_thread(u) ==
    /\ spc[u] = "start_thread"
    /\ threads' = Append(threads, [ pc |-> "new", data |-> << >> ])
    /\ _output_thread' = Len(threads) + 1
    /\ Goto(u, "start_go")
    /\ UNCHANGED << process, _running, _output_buffer, ptys, sloc, calls, reads, appended, returned, written, entered, left,
                    cleared, mark >>

\* start, lines 150-153: Thread.start raises on a thread already started.
start_go(u) ==
    /\ spc[u] = "start_go"
    /\ IF threads[_output_thread].pc = "new"
       THEN /\ threads' = [ threads EXCEPT ![_output_thread].pc = "loop" ]
            /\ Ends(u, "ok")
       ELSE /\ Ends(u, "RuntimeError")
            /\ UNCHANGED threads
    /\ UNCHANGED << process, _running, _output_thread, _output_buffer, ptys,
                    sloc, calls, reads, appended, returned, written, entered,
                    left, cleared, mark >>

\* close, line 228
close_check(u) ==
    /\ Begin(u)
    /\ calls' = calls + 1
    /\ IF _running
       THEN Goto(u, "close_flag")
       ELSE Ends(u, "ok")
    /\ UNCHANGED << process, _running, _output_thread, _output_buffer, threads,
                    ptys, sloc, reads, appended, returned, written, entered,
                    left, cleared, mark >>

\* close, line 229
close_flag(u) ==
    /\ spc[u] = "close_flag"
    /\ _running' = FALSE
    /\ left' = IF _running THEN left + 1 ELSE left
    /\ Goto(u, "close_join")
    /\ UNCHANGED << process, _output_thread, _output_buffer, threads, ptys,
                    sloc, calls, reads, appended, returned, written,
                    entered, cleared, mark >>

\* close, lines 232-233: join returns when the thread has ended or after the
\* timeout; Thread.join raises on a thread not yet started.
close_join(u) ==
    /\ spc[u] = "close_join"
    /\ IF _output_thread # 0 /\ threads[_output_thread].pc = "new"
       THEN Ends(u, "RuntimeError")
       ELSE Goto(u, "close_release")
    /\ UNCHANGED << process, _running, _output_thread, _output_buffer, threads,
                    ptys, sloc, calls, reads, appended, returned, written,
                    entered, left, cleared, mark >>

\* A close that keeps the PTY handle while the reader thread has not ended.
close_release_if_joined(u) ==
    /\ spc[u] = "close_release"
    /\ process' = IF _output_thread # 0 /\ threads[_output_thread].pc # "done"
                  THEN process ELSE 0
    /\ Ends(u, "ok")
    /\ UNCHANGED << _running, _output_thread, _output_buffer, threads, ptys,
                    sloc, calls, reads, appended, returned, written, entered,
                    left, cleared, mark >>

\* close, line 236
close_release(u) ==
    /\ spc[u] = "close_release"
    /\ process' = 0
    /\ Ends(u, "ok")
    /\ UNCHANGED << _running, _output_thread, _output_buffer, threads, ptys,
                    sloc, calls, reads, appended, returned, written, entered,
                    left, cleared, mark >>

\* write, lines 162-163: the NotRunning check.
write_check(u) ==
    /\ Begin(u)
    /\ calls' = calls + 1
    /\ IF ~_running
       THEN Ends(u, "NotRunning")
       ELSE Goto(u, "write_pty")
    /\ UNCHANGED << process, _running, _output_thread, _output_buffer, threads,
                    ptys, sloc, reads, appended, returned, written, entered,
                    left, cleared, mark >>

\* write, line 164: None has no attribute write.
write_pty(u, text) ==
    /\ spc[u] = "write_pty"
    /\ IF process = 0
       THEN Ends(u, "AttributeError") /\ UNCHANGED written
       ELSE Ends(u, "ok") /\ written' = Append(written, text)
    /\ UNCHANGED << process, _running, _output_thread, _output_buffer, threads,
                    ptys, sloc, calls, reads, appended, returned, entered,
                    left, cleared, mark >>

\* send_command, lines 177-178: the NotRunning check.
send_command_check(u) ==
    /\ Begin(u)
    /\ calls' = calls + 1
    /\ IF ~_running
       THEN Ends(u, "NotRunning")
       ELSE Goto(u, "send_clear")
    /\ UNCHANGED << process, _running, _output_thread, _output_buffer, threads,
                    ptys, sloc, reads, appended, returned, written, entered,
                    left, cleared, mark >>

\* A send_command that skips the clear of line 181.
send_command_keeps_buffer(u) ==
    /\ spc[u] = "send_clear"
    /\ mark' = [ mark EXCEPT ![u] = Len(appended) ]
    /\ Goto(u, "send_write")
    /\ UNCHANGED << process, _running, _output_thread, _output_buffer, threads,
                    ptys, sloc, calls, reads, appended, returned, written,
                    entered, left, cleared >>

\* send_command, line 181
send_command_clear(u) ==
    /\ spc[u] = "send_clear"
    /\ _output_buffer' = << >>
    /\ cleared' = TRUE
    /\ mark' = [ mark EXCEPT ![u] = Len(appended) ]
    /\ Goto(u, "send_write")
    /\ UNCHANGED << process, _running, _output_thread, threads, ptys, sloc,
                    calls, reads, appended, returned, written, entered,
                    left >>

\* send_command, line 184, and the sleep of line 187
send_command_write(u, command) ==
    /\ spc[u] = "send_write"
    /\ IF process = 0
       THEN /\ Ends(u, "AttributeError")
            /\ mark' = [ mark EXCEPT ![u] = 0 ]
            /\ UNCHANGED written
       ELSE /\ Goto(u, "send_read")
            /\ written' = Append(written, command \o << CR >>)
            /\ UNCHANGED mark
    /\ UNCHANGED << process, _running, _output_thread, _output_buffer, threads,
                    ptys, sloc, calls, reads, appended, returned, entered,
                    left, cleared >>

\* read_output, line 205, called directly or from send_command, line 190
read_output_join(u) ==
    /\ \/ Begin(u) /\ calls' = calls + 1
       \/ spc[u] = "send_read" /\ UNCHANGED calls
    /\ sloc' = [ sloc EXCEPT ![u] = Join(_output_buffer) ]
    /\ Goto(u, "read_clear")
    /\ UNCHANGED << process, _running, _output_thread, _output_buffer, threads,
                    ptys, reads, appended, returned, written,
                    entered, left, cleared, mark >>

\* A read_output that returns the text and skips the clear of line 206.
read_output_keeps_buffer(u) ==
    /\ spc[u] = "read_clear"
    /\ returned' = Append(returned, sloc[u])
    /\ sloc' = [ sloc EXCEPT ![u] = << >> ]
    /\ mark' = [ mark EXCEPT ![u] = 0 ]
    /\ Ends(u, "ok")
    /\ UNCHANGED << process, _running, _output_thread, _output_buffer, threads,
                    ptys, calls, reads, appended, written, entered, left, cleared >>

\* read_output, lines 206-207
read_output_clear(u) ==
    /\ spc[u] = "read_clear"
    /\ _output_buffer' = << >>
    /\ returned' = Append(returned, sloc[u])
    /\ sloc' = [ sloc EXCEPT ![u] = << >> ]
    /\ mark' = [ mark EXCEPT ![u] = 0 ]
    /\ Ends(u, "ok")
    /\ UNCHANGED << process, _running, _output_thread, threads, ptys, calls,
                    reads, appended, written, entered, left, cleared >>

\* _read_output_loop, line 112
loop_check(k) ==
    /\ threads[k].pc = "loop"
    /\ threads' = [ threads EXCEPT ![k].pc = IF _running THEN "read" ELSE "done" ]
    /\ UNCHANGED << process, _running, _output_thread, _output_buffer, ptys,
                    spc, sloc, outcome, calls, reads, appended, returned, written,
                    entered, left, cleared, mark >>

\* _read_output_loop, lines 114-115 and 131: a read that returns data, or
\* nothing; on None the attribute lookup raises and lines 132-135 end the loop.
loop_read(k, data) ==
    /\ threads[k].pc = "read"
    /\ data # << >> => reads < MaxReads
    /\ IF process = 0
       THEN /\ threads' = [ threads EXCEPT ![k].pc = "done" ]
            /\ UNCHANGED reads
       ELSE /\ threads' = [ threads EXCEPT ![k] =
                              [ pc |-> IF data = << >> THEN "loop" ELSE "filter",
                                data |-> data ] ]
            /\ reads' = IF data = << >> THEN reads ELSE reads + 1
    /\ UNCHANGED << process, _running, _output_thread, _output_buffer, ptys,
                    spc, sloc, outcome, calls, appended, returned, written,
                    entered, left, cleared, mark >>

\* A reader that drops the PTY handle when its read raises.
loop_read_raises_releases(k) ==
    /\ threads[k].pc = "read"
    /\ process # 0
    /\ threads' = [ threads EXCEPT ![k].pc = "done" ]
    /\ process' = 0
    /\ UNCHANGED << _running, _output_thread, _output_buffer, ptys,
                    spc, sloc, outcome, calls, reads, appended, returned, written,
                    entered, left, cleared, mark >>

\* _read_output_loop, lines 114 and 132-135: the Driver read raises.
loop_read_raises(k) ==
    /\ threads[k].pc = "read"
    /\ process # 0
    /\ threads' = [ threads EXCEPT ![k].pc = "done" ]
    /\ UNCHANGED << process, _running, _output_thread, _output_buffer, ptys,
                    spc, sloc, outcome, calls, reads, appended, returned, written,
                    entered, left, cleared, mark >>

\* _read_output_loop, lines 117-119 and 131; the object has no log_path
\* (the default of __init__, line 15), so line 122 skips the log write.
loop_append(k) ==
    /\ threads[k].pc = "filter"
    /\ LET filtered_data == _filter_output(threads[k].data) IN
        IF filtered_data # << >>
        THEN /\ _output_buffer' = deque_append(_output_buffer, filtered_data)
             /\ appended' = Append(appended, filtered_data)
             /\ cleared' = (cleared \/ Len(_output_buffer) = maxlen)
        ELSE UNCHANGED << _output_buffer, appended, cleared >>
    /\ threads' = [ threads EXCEPT ![k] = [ pc |-> "loop", data |-> << >> ] ]
    /\ UNCHANGED << process, _running, _output_thread, ptys, spc, sloc,
                    outcome, calls, reads, returned, written, entered, left, mark >>

NextSession ==
    \/ \E u \in Users :
          start_check(u) /\ UNCHANGED << regVars, srvVars, fltVars, logVars, hstVars >>
    \/ \E u \in Users :
          start_spawn(u) /\ UNCHANGED << regVars, srvVars, fltVars, logVars, hstVars >>
    \/ \E u \in Users :
          start_spawn_raises(u) /\ UNCHANGED << regVars, srvVars, fltVars, logVars, hstVars >>
    \/ \E u \in Users :
          start_flag(u) /\ UNCHANGED << regVars, srvVars, fltVars, logVars, hstVars >>
    \/ \E u \in Users :
          start_thread(u) /\ UNCHANGED << regVars, srvVars, fltVars, logVars, hstVars >>
    \/ \E u \in Users :
          start_go(u) /\ UNCHANGED << regVars, srvVars, fltVars, logVars, hstVars >>
    \/ \E u \in Users :
          close_check(u) /\ UNCHANGED << regVars, srvVars, fltVars, logVars, hstVars >>
    \/ \E u \in Users :
          close_flag(u) /\ UNCHANGED << regVars, srvVars, fltVars, logVars, hstVars >>
    \/ \E u \in Users :
          close_join(u) /\ UNCHANGED << regVars, srvVars, fltVars, logVars, hstVars >>
    \/ \E u \in Users :
          close_release(u) /\ UNCHANGED << regVars, srvVars, fltVars, logVars, hstVars >>
    \/ \E u \in Users :
          write_check(u) /\ UNCHANGED << regVars, srvVars, fltVars, logVars, hstVars >>
    \/ \E u \in Users, text \in Texts :
          write_pty(u, text) /\ UNCHANGED << regVars, srvVars, fltVars, logVars, hstVars >>
    \/ \E u \in Users :
          send_command_check(u) /\ UNCHANGED << regVars, srvVars, fltVars, logVars, hstVars >>
    \/ \E u \in Users :
          send_command_clear(u) /\ UNCHANGED << regVars, srvVars, fltVars, logVars, hstVars >>
    \/ \E u \in Users, command \in Lines :
          send_command_write(u, command) /\ UNCHANGED << regVars, srvVars, fltVars, logVars, hstVars >>
    \/ \E u \in Users :
          read_output_join(u) /\ UNCHANGED << regVars, srvVars, fltVars, logVars, hstVars >>
    \/ \E u \in Users :
          read_output_clear(u) /\ UNCHANGED << regVars, srvVars, fltVars, logVars, hstVars >>
    \/ \E k \in 1..Len(threads) :
          loop_check(k) /\ UNCHANGED << regVars, srvVars, fltVars, logVars, hstVars >>
    \/ \E k \in 1..Len(threads), data \in DriverData \cup { << >> } :
          loop_read(k, data) /\ UNCHANGED << regVars, srvVars, fltVars, logVars, hstVars >>
    \/ \E k \in 1..Len(threads) :
          loop_read_raises(k) /\ UNCHANGED << regVars, srvVars, fltVars, logVars, hstVars >>
    \/ \E k \in 1..Len(threads) :
          loop_append(k) /\ UNCHANGED << regVars, srvVars, fltVars, logVars, hstVars >>

SpecSession == Init /\ [][NextSession]_vars


\* ------------------------------------------------- the output buffer alone

\* list[start:], as Python slices: a negative start counts from the end.
SliceFrom(list, from) ==
    SubSeq(list,
           (IF from < 0
            THEN (IF Len(list) + from < 0 THEN 0 ELSE Len(list) + from)
            ELSE (IF from > Len(list) THEN Len(list) ELSE from)) + 1,
           Len(list))

\* TerminalAPI.get_latest_output: list(self._output_buffer)[-lines:], joined.
get_latest_output(lines) == Join(SliceFrom(_output_buffer, 0 - lines))

\* How many chunks the deque holds when SpecBuffer starts.
Prefills == { 0, maxlen - 1 }

\* The chunks of a deque that earlier reads filled: a, b, a, b, ...
Prefilled(n) == [ i \in 1..n |-> IF i % 2 = 1 THEN << "a" >> ELSE << "b" >> ]

\* A TerminalAPI object after start() returned, its reader thread in its
\* loop, with n chunks buffered and nothing drained yet.
InitBuffer ==
    /\ InitRegistry
    /\ InitServer
    /\ InitFilter
    /\ InitLog
    /\ InitHeld
    /\ process = 1
    /\ _running = TRUE
    /\ _output_thread = 1
    /\ threads = << [ pc |-> "loop", data |-> << >> ] >>
    /\ ptys = 1
    /\ spc = [ u \in Users |-> "idle" ]
    /\ sloc = [ u \in Users |-> << >> ]
    /\ outcome = [ u \in Users |-> IF u = "a" THEN "ok" ELSE "none" ]
    /\ calls = 1
    /\ reads = 0
    /\ \E n \in Prefills :
         /\ _output_buffer = Prefilled(n)
         /\ appended = Prefilled(n)
    /\ returned = << >>
    /\ written = << >>
    /\ entered = 1
    /\ left = 0
    /\ cleared = FALSE
    /\ mark = [ u \in Users |-> 0 ]

\* _read_output_loop, lines 112-119 and 131: one turn of the loop in which
\* the Driver returns data.
reader_appends(data) ==
    /\ _running /\ process # 0
    /\ threads[_output_thread].pc = "loop"
    /\ reads < MaxAppends
    /\ reads' = reads + 1
    /\ LET filtered_data == _filter_output(data) IN
        IF filtered_data # << >>
        THEN /\ _output_buffer' = deque_append(_output_buffer, filtered_data)
             /\ appended' = Append(appended, filtered_data)
             /\ cleared' = (cleared \/ Len(_output_buffer) = maxlen)
        ELSE UNCHANGED << _output_buffer, appended, cleared >>
    /\ UNCHANGED << process, _running, _output_thread, threads, ptys, spc, sloc,
                    outcome, calls, returned, written, entered, left, mark >>

\* TerminalAPI.get_latest_output called by u: the text it returns is kept
\* in the caller's local; nothing of the object is assigned.
peek(u, lines) ==
    /\ sloc' = [ sloc EXCEPT ![u] = get_latest_output(lines) ]
    /\ UNCHANGED << process, _running, _output_thread, _output_buffer, threads,
                    ptys, spc, outcome, calls, reads, appended, returned,
                    written, entered, left, cleared, mark >>

\* The callers that hold the object: the one whose start() returned it.
Holders == { u \in Users : outcome[u] # "none" }

NextBuffer ==
    \/ \E data \in DriverData :
          reader_appends(data) /\ UNCHANGED << regVars, srvVars, fltVars, logVars, hstVars >>
    \/ \E u \in Holders, lines \in 0..MaxLines :
          peek(u, lines) /\ UNCHANGED << regVars, srvVars, fltVars, logVars, hstVars >>

SpecBuffer == InitBuffer /\ [][NextBuffer]_vars


\* ------------------------------------------------- server.py: the endpoints

\* A request comes in: the endpoint's first call is get_session (lines 76,
\* 96, 117), and None is answered with 404.
Receive(h, endpoint, session_id, command, then) ==
    /\ req[h].at = "idle"
    /\ req' = [ req EXCEPT ![h] =
                 IF get_session(session_id) = NoId
                 THEN [ NoRequest EXCEPT !.status = 404 ]
                 ELSE [ endpoint |-> endpoint, at |-> then,
                        session_id |-> session_id,
                        session |-> get_session(session_id),
                        command |-> command, status |-> 0 ] ]
    /\ UNCHANGED regVars

At(h, endpoint, at) == req[h].endpoint = endpoint /\ req[h].at = at
Respond(h, status) == req' = [ req EXCEPT ![h] = [ NoRequest EXCEPT !.status = status ] ]
Proceed(h, then) == req' = [ req EXCEPT ![h].at = then ]

\* Lines 80-81 and 100-101: a dead session is answered with 400.
CheckAlive(h, endpoint, then) ==
    /\ At(h, endpoint, "is_alive")
    /\ IF is_alive(Get(terminals, req[h].session))
       THEN Proceed(h, then)
       ELSE Respond(h, 400)
    /\ UNCHANGED regVars

\* send_command, lines 76-78
command_get_session(h, session_id, command) ==
    Receive(h, "command", session_id, command, "is_alive")

\* send_command, lines 80-81
command_is_alive(h) == CheckAlive(h, "command", "record")

\* send_command, line 84
command_record(h) ==
    /\ At(h, "command", "record")
    /\ record_command(req[h].session_id, req[h].command)
    /\ Proceed(h, "send")

\* send_command, lines 87-88: TerminalAPI.send_command raises RuntimeError
\* on a session that is not running, and nothing catches it.
command_send(h) ==
    /\ At(h, "command", "send")
    /\ IF Get(terminals, req[h].session)._running
       THEN Respond(h, 200)
       ELSE Respond(h, 500)
    /\ UNCHANGED regVars

\* A raw-input request that records what it writes.
input_write_records(h) ==
    /\ At(h, "input", "write")
    /\ record_command(req[h].session_id, req[h].command)
    /\ Proceed(h, "read")

\* send_raw_input, lines 96-98
input_get_session(h, session_id, command) ==
    Receive(h, "input", session_id, command, "is_alive")

\* send_raw_input, lines 100-101
input_is_alive(h) == CheckAlive(h, "input", "write")

\* send_raw_input, line 107: TerminalAPI.write raises RuntimeError on a
\* session that is not running.
input_write(h) ==
    /\ At(h, "input", "write")
    /\ IF Get(terminals, req[h].session)._running
       THEN Proceed(h, "read")
       ELSE Respond(h, 500)
    /\ UNCHANGED regVars

\* send_raw_input, line 109
input_read(h) ==
    /\ At(h, "input", "read")
    /\ Respond(h, 200)
    /\ UNCHANGED regVars

\* get_output, lines 117-119
output_get_session(h, session_id) ==
    Receive(h, "output", session_id, NoId, "read")

\* get_output, lines 121-122
output_read(h) ==
    /\ At(h, "output", "read")
    /\ Respond(h, 200)
    /\ UNCHANGED regVars

\* The registry after two create_session calls have returned: u1 was named
\* t1 by its creator, u2 was given the same name or none.
InitServed ==
    /\ \E name \in UserNames \cup { "" } :
         _metadata = << << uuid4(1), [ name |-> "t1" ] >>,
                        << uuid4(2), [ name |-> IF name = "" THEN DefaultName(2)
                                                ELSE name ] >> >>
    /\ _sessions = << << uuid4(1), uuid4(1) >>, << uuid4(2), uuid4(2) >> >>
    /\ _history = << << uuid4(1), << >> >>, << uuid4(2), << >> >> >>
    /\ terminals = << << uuid4(1), start(TerminalAPI) >>,
                      << uuid4(2), start(TerminalAPI) >> >>
    /\ nextUuid = 3
    /\ recorded = 0
    /\ pc = [ c \in Callers |-> "idle" ]
    /\ loc = [ c \in Callers |-> NoLocals ]
    /\ issued = { uuid4(1), uuid4(2) }
    /\ killed = {}
    /\ InitSession
    /\ InitServer
    /\ InitFilter
    /\ InitLog
    /\ InitHeld

NextServer ==
    \/ \E identifier \in Identifiers :
          registry_read(identifier) /\ UNCHANGED << sesVars, srvVars, fltVars, logVars, hstVars >>
    \/ \E identifier \in Identifiers :
          kill_session(identifier) /\ UNCHANGED << sesVars, srvVars, fltVars, logVars, hstVars >>
    \/ \E t \in Keys(terminals) :
          reader_read_error(t) /\ UNCHANGED << sesVars, srvVars, fltVars, logVars, hstVars >>
    \/ \E t \in Keys(terminals) :
          reader_stops(t) /\ UNCHANGED << sesVars, srvVars, fltVars, logVars, hstVars >>
    \/ \E h \in Clients, session_id \in Identifiers, command \in Commands :
          command_get_session(h, session_id, command) /\ UNCHANGED << sesVars, fltVars, logVars, hstVars >>
    \/ \E h \in Clients :
          command_is_alive(h) /\ UNCHANGED << sesVars, fltVars, logVars, hstVars >>
    \/ \E h \in Clients :
          command_record(h) /\ UNCHANGED << sesVars, fltVars, logVars, hstVars >>
    \/ \E h \in Clients :
          command_send(h) /\ UNCHANGED << sesVars, fltVars, logVars, hstVars >>
    \/ \E h \in Clients, session_id \in Identifiers, command \in RawInputs :
          input_get_session(h, session_id, command) /\ UNCHANGED << sesVars, fltVars, logVars, hstVars >>
    \/ \E h \in Clients :
          input_is_alive(h) /\ UNCHANGED << sesVars, fltVars, logVars, hstVars >>
    \/ \E h \in Clients :
          input_write(h) /\ UNCHANGED << sesVars, fltVars, logVars, hstVars >>
    \/ \E h \in Clients :
          input_read(h) /\ UNCHANGED << sesVars, fltVars, logVars, hstVars >>
    \/ \E h \in Clients, session_id \in Identifiers :
          output_get_session(h, session_id) /\ UNCHANGED << sesVars, fltVars, logVars, hstVars >>
    \/ \E h \in Clients :
          output_read(h) /\ UNCHANGED << sesVars, fltVars, logVars, hstVars >>

SpecServer == InitServed /\ [][NextServer]_vars


\* ------------------------------------------------- _filter_output alone

\* A caller has a chunk to filter.
InitChunk ==
    /\ InitRegistry
    /\ InitSession
    /\ InitServer
    /\ InitLog
    /\ InitHeld
    /\ filter_in \in Chunks
    /\ filter_out = Unfiltered

\* TerminalAPI._filter_output(data) returns.
filter_output ==
    /\ filter_out = Unfiltered
    /\ filter_out' = _filter_output(filter_in)
    /\ UNCHANGED filter_in

NextFilter ==
    \/ filter_output /\ UNCHANGED << regVars, sesVars, srvVars, logVars, hstVars >>

SpecFilter == InitChunk /\ [][NextFilter]_vars


\* ------------------------------------------------- the reader and its log

\* A TerminalAPI object after start() returned, made with or without a
\* log_path, its reader thread at the top of its loop.
InitLogged ==
    /\ InitRegistry
    /\ InitServer
    /\ InitFilter
    /\ InitHeld
    /\ process = 1
    /\ _running = TRUE
    /\ _output_thread = 1
    /\ threads = << [ pc |-> "loop", data |-> << >> ] >>
    /\ ptys = 1
    /\ spc = [ u \in Users |-> "idle" ]
    /\ sloc = [ u \in Users |-> << >> ]
    /\ outcome = [ u \in Users |-> IF u = "a" THEN "ok" ELSE "none" ]
    /\ calls = 1
    /\ reads = 0
    /\ _output_buffer = << >>
    /\ appended = << >>
    /\ returned = << >>
    /\ written = << >>
    /\ entered = 1
    /\ left = 0
    /\ cleared = FALSE
    /\ mark = [ u \in Users |-> 0 ]
    /\ log_path \in BOOLEAN
    /\ logged = << >>
    /\ driven = << >>
    /\ failures = 0

\* _read_output_loop, lines 114-115 and 131: the Driver returns data, or
\* nothing.
logged_read(k, data) ==
    /\ threads[k].pc = "read"
    /\ process # 0
    /\ data # << >> => reads < MaxDriven
    /\ threads' = [ threads EXCEPT ![k] =
                      [ pc |-> IF data = << >> THEN "loop" ELSE "filter",
                        data |-> data ] ]
    /\ reads' = IF data = << >> THEN reads ELSE reads + 1
    /\ driven' = IF data = << >> THEN driven ELSE Append(driven, data)
    /\ UNCHANGED << process, _running, _output_thread, _output_buffer, ptys,
                    spc, sloc, outcome, calls, appended, returned, written,
                    entered, left, cleared, mark, log_path, logged, failures >>

\* _read_output_loop, lines 117-122 and 131: filter, append to the buffer,
\* and go on to the log write if there is a log_path.
logged_append(k) ==
    /\ threads[k].pc = "filter"
    /\ LET filtered_data == _filter_output(threads[k].data) IN
        IF filtered_data # << >>
        THEN /\ _output_buffer' = deque_append(_output_buffer, filtered_data)
             /\ appended' = Append(appended, filtered_data)
             /\ cleared' = (cleared \/ Len(_output_buffer) = maxlen)
             /\ threads' = [ threads EXCEPT ![k] =
                               IF log_path
                               THEN [ pc |-> "log", data |-> filtered_data ]
                               ELSE [ pc |-> "loop", data |-> << >> ] ]
        ELSE /\ threads' = [ threads EXCEPT ![k] = [ pc |-> "loop", data |-> << >> ] ]
             /\ UNCHANGED << _output_buffer, appended, cleared >>
    /\ UNCHANGED << process, _running, _output_thread, ptys, spc, sloc,
                    outcome, calls, reads, returned, written, entered, left, mark,
                    logVars >>

\* A log write whose exception is not caught where it is raised: the outer
\* handler of lines 132-135 ends the loop.
log_write_raises_ends_reader(k) ==
    /\ threads[k].pc = "log"
    /\ failures' = failures + 1
    /\ threads' = [ threads EXCEPT ![k] = [ pc |-> "done", data |-> << >> ] ]
    /\ UNCHANGED << process, _running, _output_thread, _output_buffer, ptys,
                    spc, sloc, outcome, calls, reads, appended, returned, written,
                    entered, left, cleared, mark, log_path, logged, driven >>

\* A log write that puts the chunk at the head of the file.
log_write_prepends(k) ==
    /\ threads[k].pc = "log"
    /\ logged' = << threads[k].data >> \o logged
    /\ threads' = [ threads EXCEPT ![k] = [ pc |-> "loop", data |-> << >> ] ]
    /\ UNCHANGED << process, _running, _output_thread, _output_buffer, ptys,
                    spc, sloc, outcome, calls, reads, appended, returned, written,
                    entered, left, cleared, mark, log_path, driven, failures >>

\* _read_output_loop, lines 123-127 and 131: the chunk is appended to the file.
log_write(k) ==
    /\ threads[k].pc = "log"
    /\ logged' = Append(logged, threads[k].data)
    /\ threads' = [ threads EXCEPT ![k] = [ pc |-> "loop", data |-> << >> ] ]
    /\ UNCHANGED << process, _running, _output_thread, _output_buffer, ptys,
                    spc, sloc, outcome, calls, reads, appended, returned, written,
                    entered, left, cleared, mark, log_path, driven, failures >>

\* _read_output_loop, lines 123-131: open, write, flush or fsync raises; the
\* handler of lines 128-129 prints and the loop goes on.
log_write_raises(k) ==
    /\ threads[k].pc = "log"
    /\ failures' = failures + 1
    /\ threads' = [ threads EXCEPT ![k] = [ pc |-> "loop", data |-> << >> ] ]
    /\ UNCHANGED << process, _running, _output_thread, _output_buffer, ptys,
                    spc, sloc, outcome, calls, reads, appended, returned, written,
                    entered, left, cleared, mark, log_path, logged, driven >>

NextLogged ==
    \/ \E k \in 1..Len(threads) :
          loop_check(k) /\ UNCHANGED << regVars, srvVars, fltVars, logVars, hstVars >>
    \/ \E k \in 1..Len(threads), data \in DriverData \cup { << >> } :
          logged_read(k, data) /\ UNCHANGED << regVars, srvVars, fltVars, hstVars >>
    \/ \E k \in 1..Len(threads) :
          loop_read_raises(k) /\ UNCHANGED << regVars, srvVars, fltVars, logVars, hstVars >>
    \/ \E k \in 1..Len(threads) :
          logged_append(k) /\ UNCHANGED << regVars, srvVars, fltVars, hstVars >>
    \/ \E k \in 1..Len(threads) :
          log_write(k) /\ UNCHANGED << regVars, srvVars, fltVars, hstVars >>
    \/ \E k \in 1..Len(threads) :
          log_write_raises(k) /\ UNCHANGED << regVars, srvVars, fltVars, hstVars >>
    \/ \E u \in Holders :
          read_output_join(u) /\ UNCHANGED << regVars, srvVars, fltVars, logVars, hstVars >>
    \/ \E u \in Holders :
          read_output_clear(u) /\ UNCHANGED << regVars, srvVars, fltVars, logVars, hstVars >>

SpecLogged == InitLogged /\ [][NextLogged]_vars


\* ------------------------------------------------- get_history's result

\* The items of the list a caller holds, as the caller reads them now.
Items(list) ==
    IF list.kind = "shared" THEN Get(_history, list.sid) ELSE list.items

\* SessionManager.get_history returns to caller c: self._history.get(sid, [])
\* is the list object stored in the registry, the [] of lines 98 and 99 is a
\* new list.
get_history_returns(c, identifier) ==
    /\ held' = [ held EXCEPT ![c] =
                  IF _resolve_id(identifier) # NoId /\ Has(_history, _resolve_id(identifier))
                  THEN Shared(_resolve_id(identifier))
                  ELSE Own(<< >>) ]
    /\ UNCHANGED regVars

\* Caller c appends to the list it was handed: list.append changes the list
\* object, whoever else refers to it.
caller_appends(c, item) ==
    /\ held[c].kind # "none"
    /\ Len(Items(held[c])) < MaxRecords
    /\ IF held[c].kind = "shared"
       THEN /\ _history' = Put(_history, held[c].sid,
                               Append(Get(_history, held[c].sid), item))
            /\ UNCHANGED held
       ELSE /\ held' = [ held EXCEPT ![c] = Own(Append(held[c].items, item)) ]
            /\ UNCHANGED _history
    /\ UNCHANGED << _sessions, _metadata, terminals, nextUuid, recorded, pc, loc,
                    issued, killed >>

\* kill_session, line 160: del self._history[sid] drops the registry's
\* reference; a caller that holds the list is then the only one that does.
Detached(list) ==
    IF list.kind = "shared" /\ ~Has(_history', list.sid)
    THEN Own(Get(_history, list.sid))
    ELSE list

NextHistory ==
    \/ \E identifier \in Identifiers, command \in Commands :
          /\ record_command(identifier, command)
          /\ UNCHANGED << sesVars, srvVars, fltVars, logVars, hstVars >>
    \/ \E c \in Callers, identifier \in Identifiers :
          /\ get_history_returns(c, identifier)
          /\ UNCHANGED << sesVars, srvVars, fltVars, logVars >>
    \/ \E c \in Callers, item \in CallerItems :
          /\ caller_appends(c, item)
          /\ UNCHANGED << sesVars, srvVars, fltVars, logVars >>
    \/ \E identifier \in Identifiers :
          /\ kill_session(identifier)
          /\ held' = [ c \in Callers |-> Detached(held[c]) ]
          /\ UNCHANGED << sesVars, srvVars, fltVars, logVars >>

SpecHistory == InitServed /\ [][NextHistory]_vars


\* ================================================================ claims

AllIds == { uuid4(k) : k \in 1..MaxSessions }
AllNames == UserNames \cup AllIds \cup { DefaultName(k) : k \in 1..MaxSessions }
Maps == << _sessions, _history, _metadata >>
NoDup(d) == \A i, j \in 1..Len(d) : d[i][1] = d[j][1] => i = j
NameOf(sid) == Get(_metadata, sid).name
Named(identifier) == { sid \in Keys(_metadata) : NameOf(sid) = identifier }
\* The TerminalAPI objects of create_session calls that raised.
FailedCreates ==
    { t \in Keys(terminals) : t \notin issued /\ \A c \in Callers : loc[c].session_id # t }
\* d and e hold the same value under every key of K.
Agree(d, e, K) == \A k \in K : Has(d, k) /\ Has(e, k) /\ Get(d, k) = Get(e, k)

\* C1: in every reachable state the session map, the metadata map and the
\* history map hold exactly the same session ids, each id once.
C1_SameIds ==
    /\ Keys(_sessions) = Keys(_metadata)
    /\ Keys(_sessions) = Keys(_history)
    /\ NoDup(_sessions) /\ NoDup(_metadata) /\ NoDup(_history)

\* A session is registered with a recorded command after another was killed.
C1_Witness ==
    /\ killed # {}
    /\ \E sid \in Keys(_sessions) : Get(_history, sid) # << >>

Reachable(x) == { sid \in Keys(_sessions) : sid = x \/ NameOf(sid) = x }

C3_AllOrNothing ==
    [][ /\ Maps' # Maps =>
            /\ \A c \in Callers :
                 ~(create_session_start_raises(c) \/ create_session_cleanup_raises(c))
            /\ \A identifier \in Identifiers :
                 ~kill_returns(identifier) => ~kill_session(identifier)
        /\ issued' # issued =>
            \A c \in Callers : \A id \in { loc[c].session_id } :
               create_session_register(c)
               => /\ Keys(_sessions') = Keys(_sessions) \cup { id }
                  /\ Keys(_history') = Keys(_history) \cup { id }
                  /\ Keys(_metadata') = Keys(_metadata) \cup { id }
                  /\ Get(_history', id) = << >>
                  /\ Agree(_sessions, _sessions', Keys(_sessions))
                  /\ Agree(_history, _history', Keys(_history))
                  /\ Agree(_metadata, _metadata', Keys(_metadata))
        /\ killed' # killed =>
            \A identifier \in Identifiers : \A id \in { _resolve_id(identifier) } :
               (kill_returns(identifier) /\ kill_session(identifier))
               => /\ Keys(_sessions') = Keys(_sessions) \ { id }
                  /\ Keys(_history') = Keys(_history) \ { id }
                  /\ Keys(_metadata') = Keys(_metadata) \ { id }
                  /\ Agree(_sessions, _sessions', Keys(_sessions'))
                  /\ Agree(_history, _history', Keys(_history'))
                  /\ Agree(_metadata, _metadata', Keys(_metadata'))
      ]_vars

\* One create_session raised, another returned its id, and a kill_session
\* returned True.
C3_Witness == FailedCreates # {} /\ killed # {}

\* C4: get_history of an identifier that resolves to no session returns a
\* not-found outcome that differs from the empty history of an existing
\* session, and the history endpoint answers 404.
C4_NotFoundIsExplicit ==
    \A identifier \in Identifiers :
        _resolve_id(identifier) = NoId
        => /\ get_history(identifier) # PyList(<< >>)
           /\ history_status(get_history(identifier)) = 404

\* C5: get_session, kill_session, record_command and get_history act on one
\* and the same session for an identifier: the session with that id if there
\* is one, otherwise one session among those of that name, otherwise none.
C5_Resolution ==
    /\ [](\A identifier \in AllNames \cup { Unknown } :
            /\ identifier \in Keys(_sessions) => _resolve_id(identifier) = identifier
            /\ (identifier \notin Keys(_sessions) /\ Named(identifier) # {})
               => _resolve_id(identifier) \in Named(identifier)
            /\ (identifier \notin Keys(_sessions) /\ Named(identifier) = {})
               => _resolve_id(identifier) = NoId
            /\ get_session(identifier) =
                 IF _resolve_id(identifier) = NoId THEN NoId
                 ELSE Get(_sessions, _resolve_id(identifier))
            /\ get_history(identifier) =
                 IF _resolve_id(identifier) = NoId THEN PyList(<< >>)
                 ELSE PyList(Get(_history, _resolve_id(identifier))))
    /\ [][ /\ killed' # killed =>
                \A identifier \in Identifiers : \A id \in { _resolve_id(identifier) } \ { NoId } :
                   kill_session(identifier)
                   => Keys(_sessions) \ Keys(_sessions') = { id }
           /\ recorded' # recorded =>
                \A identifier \in Identifiers : \A id \in { _resolve_id(identifier) } \ { NoId } :
                   \A command \in Commands :
                      record_command(identifier, command)
                      => /\ Get(_history', id) = Append(Get(_history, id), command)
                         /\ Agree(_history, _history', Keys(_history) \ { id })
         ]_vars

\* Two registered sessions share the name t1, and one has a recorded command.
C5_Witness ==
    \E a, b \in Keys(_sessions) :
        /\ a # b
        /\ NameOf(a) = "t1" /\ NameOf(b) = "t1"
        /\ Get(_history, _resolve_id("t1")) # << >>

\* C6: a record_command whose identifier resolves to session A appends
\* exactly one entry to A's history and leaves every other history as it
\* was; one whose identifier resolves to nothing changes no history.
C6_HistoryIsolation ==
    [][ /\ _history' # _history =>
            \A identifier \in Identifiers, command \in Commands :
               _resolve_id(identifier) = NoId => ~record_command(identifier, command)
        /\ recorded' # recorded =>
            \A identifier \in Identifiers, command \in Commands :
               \A A \in { _resolve_id(identifier) } \ { NoId } :
                  record_command(identifier, command)
                  => /\ Keys(_history') = Keys(_history)
                     /\ Get(_history', A) = Append(Get(_history, A), command)
                     /\ Agree(_history, _history', Keys(_history) \ { A })
      ]_vars

\* Two sessions are registered; one has a command recorded, the other none.
C6_Witness ==
    \E A, B \in Keys(_history) :
        A # B /\ Len(Get(_history, A)) = 1 /\ Get(_history, B) = << >>

\* The calls so far were made one after the other, by one caller.
OneCaller == \A u \in Users \ { "a" } : spc[u] = "idle" /\ outcome[u] = "none"

\* C7: over any start() and close() calls on one session, _running goes
\* from False to True at most once and from True to False at most once, and
\* once close() has set it False no start() sets it True again.
C7_RunsOnce ==
    OneCaller =>
        /\ entered <= 1
        /\ left <= 1
        /\ (left >= 1 /\ spc["a"] = "idle") => ~_running

\* C8: on a session that is not running, write, send_command and
\* read_output raise NotRunning: the call writes nothing to the PTY, returns
\* no buffered output and leaves the buffer as it is.
C8_NotRunningRejects ==
    [][ \A u \in Users :
          ( /\ ~_running
            /\ spc[u] = "idle"
            /\ write_check(u) \/ send_command_check(u) \/ read_output_join(u) )
          => /\ outcome'[u] = "NotRunning"
             /\ spc'[u] = "idle"
             /\ UNCHANGED << _output_buffer, written, returned >>
      ]_vars

\* C9: start() on a session that is already running raises AlreadyRunning
\* and changes nothing: no PTY is made, no thread is made or started, and
\* the PTY handle, the reader thread and the buffer stay as they are,
\* whether or not the reader thread has ended.
C9_AlreadyRunning ==
    [][ \A u \in Users :
          (start_check(u) /\ _running)
          => /\ outcome'[u] = "AlreadyRunning"
             /\ spc'[u] = "idle"
             /\ UNCHANGED << process, _running, _output_thread, _output_buffer,
                             threads, ptys, entered >>
      ]_vars

\* A start() raised AlreadyRunning on a running session whose reader thread
\* had ended after a read error, with output still in the buffer.
C9_Witness ==
    /\ _running
    /\ _output_thread # 0
    /\ threads[_output_thread].pc = "done"
    /\ _output_buffer # << >>
    /\ \E u \in Users : outcome[u] = "AlreadyRunning"

\* How often the character x occurs in the text.
RECURSIVE Occurrences(_, _)
Occurrences(x, text) ==
    IF text = << >> THEN 0
    ELSE (IF Head(text) = x THEN 1 ELSE 0) + Occurrences(x, Tail(text))

\* The text is a run of consecutive characters of the whole.
IsRunOf(text, whole) ==
    \E i \in 0..Len(whole) : \E j \in i..Len(whole) : text = SubSeq(whole, i + 1, j)

\* C10: without eviction or a send_command clear, every chunk the reader
\* appended was returned by exactly one read_output call or is still in the
\* buffer, and each returned text is appended chunks in arrival order.
C10_DrainIsAtomic ==
    ~cleared =>
        /\ \A x \in { "a", "b" } :
             Occurrences(x, Join(appended)) =
                 Occurrences(x, Join(returned)) + Occurrences(x, Join(_output_buffer))
        /\ \A k \in 1..Len(returned) : IsRunOf(returned[k], Join(appended))

\* The chunks appended since caller u's send_command cleared the buffer
\* (since the start, for a caller that is not in send_command).
SinceClear(u) == SubSeq(appended, mark[u] + 1, Len(appended))

\* C11: send_command on a running session clears the buffer, then writes
\* the command followed by one carriage return to the PTY, then waits, then
\* drains; the text it returns is made only of chunks appended after its
\* clear, in arrival order, and the drain leaves the buffer empty. On a
\* session that is not running it raises NotRunning and neither clears nor
\* writes.
C11_SendCommand ==
    /\ [](\A u \in Users :
            /\ spc[u] \in { "send_write", "send_read" }
               => \E i \in 0..Len(SinceClear(u)) :
                     _output_buffer = SubSeq(SinceClear(u), i + 1, Len(SinceClear(u)))
            /\ spc[u] = "read_clear"
               => IsRunOf(sloc[u], Join(SinceClear(u))))
    /\ [][ \A u \in Users :
            /\ (spc[u] = "idle" /\ send_command_check(u))
               => /\ UNCHANGED << _output_buffer, written, returned >>
                  /\ IF _running
                     THEN spc'[u] = "send_clear"
                     ELSE spc'[u] = "idle" /\ outcome'[u] = "NotRunning"
            /\ (spc[u] = "send_clear" /\ send_command_clear(u))
               => /\ _output_buffer' = << >>
                  /\ spc'[u] = "send_write"
                  /\ UNCHANGED << written, returned >>
            /\ \A command \in Lines :
                 (spc[u] = "send_write" /\ process # 0 /\ send_command_write(u, command))
                 => /\ written' = Append(written, command \o << CR >>)
                    /\ spc'[u] = "send_read"
                    /\ UNCHANGED << _output_buffer, returned >>
            /\ (spc[u] = "send_read" /\ read_output_join(u))
               => /\ sloc'[u] = Join(_output_buffer)
                  /\ spc'[u] = "read_clear"
                  /\ UNCHANGED << _output_buffer, written, returned >>
            /\ (spc[u] = "read_clear" /\ read_output_clear(u))
               => /\ _output_buffer' = << >>
                  /\ returned' = Append(returned, sloc[u])
                  /\ outcome'[u] = "ok"
                  /\ UNCHANGED written
         ]_vars

\* A send_command wrote its line and returned the one chunk that arrived
\* after its clear.
C11_Witness ==
    /\ Len(appended) = 1
    /\ written = << << "l", "s", CR >> >>
    /\ returned = << appended[1] >>
    /\ _output_buffer = << >>
    /\ cleared
    /\ \E u \in Users : outcome[u] = "ok" /\ spc[u] = "idle"

\* Thread.is_alive(): from the return of Thread.start() until run() ends.
ThreadState(k) ==
    IF k = 0 THEN "none"
    ELSE IF threads[k].pc = "new" THEN "new"
    ELSE IF threads[k].pc = "done" THEN "dead"
    ELSE "alive"

\* The one TerminalAPI object of SpecSession, as is_alive() reads it.
Self ==
    [ _running |-> _running,
      _output_thread |-> ThreadState(_output_thread),
      process |-> process # 0 ]

\* What close() may not touch.
CloseFrame == << _output_thread, _output_buffer, threads, ptys, written, returned >>

\* C12: close() on a running session sets the stop flag, waits a bounded
\* time for the reader thread and then releases the PTY handle whether or
\* not the thread has ended; when it returns is_alive() is False; close()
\* on a session that is not running (closed already, or never started)
\* changes nothing; close() raises nothing.
C12_Close ==
    /\ [](OneCaller => outcome["a"] \notin { "RuntimeError", "AttributeError" })
    /\ [][ \A u \in Users :
            /\ (spc[u] = "idle" /\ close_check(u))
               => /\ UNCHANGED << process, _running, CloseFrame >>
                  /\ IF _running
                     THEN spc'[u] = "close_flag"
                     ELSE spc'[u] = "idle" /\ outcome'[u] = "ok"
            /\ (spc[u] = "close_flag" /\ close_flag(u))
               => /\ _running' = FALSE
                  /\ spc'[u] = "close_join"
                  /\ UNCHANGED << process, CloseFrame >>
            /\ (spc[u] = "close_join" /\ ThreadState(_output_thread) # "new" /\ close_join(u))
               => /\ spc'[u] = "close_release"
                  /\ UNCHANGED << process, _running, CloseFrame >>
            /\ (spc[u] = "close_release" /\ close_release(u))
               => /\ process' = 0
                  /\ spc'[u] = "idle" /\ outcome'[u] = "ok"
                  /\ UNCHANGED << _running, CloseFrame >>
                  /\ OneCaller => ~is_alive(Self)'
         ]_vars

\* A close() returned while the reader thread had not ended, and a second
\* close() returned after it.
C12_Witness ==
    /\ OneCaller
    /\ calls = 3 /\ left = 1 /\ entered = 1
    /\ spc["a"] = "idle" /\ outcome["a"] = "ok"
    /\ process = 0
    /\ ThreadState(_output_thread) = "alive"

\* C13: when cleanup_all returns, the three maps are empty and every
\* session a create_session has started is closed, the session of a
\* create_session that has not registered yet included.
C13_CleanupClosesAll ==
    [][ cleanup_all
        => /\ _sessions' = << >> /\ _history' = << >> /\ _metadata' = << >>
           /\ \A t \in Keys(terminals) : ~Get(terminals', t)._running
      ]_vars

\* The registered sessions whose reader thread has ended.
DeadReaders ==
    { sid \in Keys(_sessions) : Get(terminals, Get(_sessions, sid))._output_thread = "dead" }

\* list_sessions() has exactly one entry for the session, with this alive flag.
Listed(sid, alive) ==
    /\ \E k \in 1..Len(list_sessions) : list_sessions[k].id = sid
    /\ \A k \in 1..Len(list_sessions) :
         list_sessions[k].id = sid => list_sessions[k].alive = alive

\* C14: a registered session whose reader thread has ended stays in the
\* three maps and is listed with alive = False in every later state until a
\* kill_session that resolves to it or cleanup_all removes it, and nothing
\* but kill_session and cleanup_all takes a session out of the registry.
C14_NoReaping ==
    /\ [](\A sid \in DeadReaders : Listed(sid, FALSE))
    /\ [][ /\ \A sid \in DeadReaders :
              \/ sid \in killed'
              \/ cleanup_all
              \/ /\ sid \in DeadReaders'
                 /\ sid \in Keys(_history') /\ sid \in Keys(_metadata')
           /\ ~(Keys(_sessions) \subseteq Keys(_sessions'))
              => (killed' # killed \/ cleanup_all)
         ]_vars

\* A session whose reader ended on a read error is still registered and
\* listed after a command was recorded and another session was killed.
C14_Witness ==
    /\ killed # {}
    /\ recorded > 0
    /\ \E sid \in DeadReaders :
         /\ Get(terminals, Get(_sessions, sid))._running
         /\ Listed(sid, FALSE)

\* The session is running, no start() is under way and its reader thread
\* has ended: the thread left its loop on a read error.
ReaderDied ==
    /\ _running
    /\ ThreadState(_output_thread) = "dead"
    /\ \A u \in Users : spc[u] \notin { "start_spawn", "start_flag", "start_thread", "start_go" }

\* C15: when a Driver read raises on a running session the reader thread
\* leaves its loop for good and keeps the PTY handle; is_alive() is False
\* from then on until close(); no exception reaches a caller.
C15_ReadError ==
    /\ [](OneCaller /\ ReaderDied
          => /\ ~is_alive(Self)
             /\ process # 0
             /\ outcome["a"] \in { "ok", "called", "AlreadyRunning" })
    /\ [][ /\ \A k \in 1..Len(threads) :
                /\ (threads[k].pc = "read" /\ process # 0 /\ loop_read_raises(k))
                   => /\ threads'[k].pc = "done"
                      /\ UNCHANGED << process, _running, _output_thread,
                                      _output_buffer, spc, outcome >>
                /\ threads[k].pc = "done" => threads'[k].pc = "done"
           /\ (OneCaller /\ ReaderDied /\ left' = left) => ReaderDied'
         ]_vars

\* After the reader ended on a read error, with no close(), a write and a
\* read_output returned normally.
C15_Witness ==
    /\ OneCaller /\ ReaderDied
    /\ left = 0
    /\ calls = 3
    /\ Len(written) = 1 /\ Len(returned) = 1
    /\ spc["a"] = "idle" /\ outcome["a"] = "ok"

\* All of a sequence but its last element.
Front(seq) == SubSeq(seq, 1, Len(seq) - 1)

\* C16: read_output() on a running session returns the concatenation of all
\* buffered chunks and leaves the buffer empty, without raising; a
\* read_output() that follows with no append in between (every chunk ever
\* appended was already returned) returns the empty string, and so does a
\* read_output() on a buffer that was always empty.
C16_DrainTwice ==
    /\ []((OneCaller /\ ~cleared /\ returned # << >> /\ Join(Front(returned)) = Join(appended))
          => returned[Len(returned)] = << >>)
    /\ [][ \A u \in Users :
            /\ (spc[u] = "idle" /\ _running /\ read_output_join(u))
               => /\ sloc'[u] = Join(_output_buffer)
                  /\ spc'[u] = "read_clear"
                  /\ UNCHANGED << _output_buffer, returned >>
            /\ (spc[u] = "read_clear" /\ read_output_clear(u))
               => /\ returned' = Append(returned, sloc[u])
                  /\ _output_buffer' = << >>
                  /\ spc'[u] = "idle" /\ outcome'[u] = "ok"
         ]_vars

\* Two read_output() calls in a row: the first returned the one buffered
\* chunk, the second the empty string.
C16_Witness ==
    /\ OneCaller /\ ~cleared
    /\ calls = 3
    /\ Len(appended) = 1
    /\ returned = << appended[1], << >> >>
    /\ spc["a"] = "idle" /\ outcome["a"] = "ok"

\* The smaller of two numbers.
Min(a, b) == IF a < b THEN a ELSE b

\* The last n chunks of a list, n <= Len(list).
LastChunks(list, n) == SubSeq(list, Len(list) - n + 1, Len(list))

\* C17: with no drain and no clear, the buffer holds exactly the most recent
\* min(k, capacity) of the k chunks appended so far, in arrival order; it
\* never holds more than capacity chunks, and what is missing is the oldest.
C17_Eviction ==
    /\ Len(_output_buffer) <= maxlen
    /\ _output_buffer = LastChunks(appended, Min(Len(appended), maxlen))

\* Two chunks have been appended to a full buffer and the two oldest are gone.
C17_Witness ==
    /\ Len(appended) = maxlen + 2
    /\ Len(_output_buffer) = maxlen
    /\ _output_buffer[1] = appended[3]
    /\ _output_buffer[maxlen] = appended[maxlen + 2]

\* C18: get_latest_output(n), n >= 0, returns the concatenation of exactly
\* the last min(n, size) chunks (the empty text for n = 0) and leaves the
\* buffer as it was.
C18_Peek ==
    [][ \A u \in Holders, lines \in 0..MaxLines :
          peek(u, lines) =>
            /\ sloc'[u] = Join(LastChunks(_output_buffer,
                                          Min(lines, Len(_output_buffer))))
            /\ _output_buffer' = _output_buffer ]_vars

\* s is the beginning of t.
IsPrefix(s, t) == Len(s) <= Len(t) /\ SubSeq(t, 1, Len(s)) = s

\* A step of a raw-input request, of an output fetch, or a list or a get.
NotTheCommandEndpoint ==
    \/ \E h \in Clients, session_id \in Identifiers, text \in RawInputs :
          input_get_session(h, session_id, text)
    \/ \E h \in Clients : input_is_alive(h) \/ input_write(h) \/ input_read(h)
    \/ \E h \in Clients, session_id \in Identifiers : output_get_session(h, session_id)
    \/ \E h \in Clients : output_read(h)
    \/ \E identifier \in Identifiers : registry_read(identifier)

\* C19: history is append-only and fed only by the command endpoint. A step
\* of a raw-input request, of an output fetch, a list or a get changes no
\* history; the record step of a command request, which comes after the
\* session was found alive, appends exactly the request's command at the end
\* of the history of the session its identifier resolves to and changes no
\* other; a history that changes while its session stays registered changes
\* in such a step only, and its old entries stay where they were.
C19_HistoryFeed ==
    [][ /\ (_history' # _history) => ~NotTheCommandEndpoint
        /\ \A h \in Clients : \A sid \in { _resolve_id(req[h].session_id) } :
             (At(h, "command", "record") /\ req'[h] # req[h] /\ sid # NoId) =>
               /\ Get(_history', sid) = Append(Get(_history, sid), req[h].command)
               /\ \A other \in Keys(_sessions) \ { sid } :
                    Get(_history', other) = Get(_history, other)
        /\ (_history' # _history) =>
             \A sid \in Keys(_sessions) \cap Keys(_sessions') :
               /\ IsPrefix(Get(_history, sid), Get(_history', sid))
               /\ Get(_history', sid) # Get(_history, sid) =>
                    \E h \in Clients : command_record(h) ]_vars

\* Two command requests have been recorded in one session's history, in the
\* order they came, and a raw-input request has since written to a session:
\* the histories hold those two entries and nothing else.
C19_Witness ==
    /\ recorded = 2
    /\ \E sid \in Keys(_history) :
         /\ Len(Get(_history, sid)) = 2
         /\ Get(_history, sid)[1] # Get(_history, sid)[2]
    /\ \E h \in Clients : At(h, "input", "read")

\* The sequences the filter is there to remove: a Device-Attributes
\* response, a cursor-position report, the listed mode toggles, and an OSC
\* sequence ended by BEL or by ESC and a backslash.
DeviceAttributes == CSI \o << Lit("?"), Plus(Digits \cup { ";" }), Lit("c") >>
CursorReport == CSI \o << Plus(Digits), Lit(";"), Plus(Digits), Lit("R") >>
ModeToggles == { Mode(<< "2", "0", "0", "4" >>), Mode(<< "1", "0", "4", "9" >>),
                 Mode(<< "1" >>), Mode(<< "2", "5" >>),
                 Mode(<< "1", "0", "0", "0" >>), Mode(<< "1", "0", "0", "2" >>),
                 Mode(<< "1", "0", "0", "3" >>), Mode(<< "1", "0", "0", "6" >>) }
OscBel == << Lit(ESC), Lit("]"), StarNot({ BEL }), Lit(BEL) >>
OscST == << Lit(ESC), Lit("]"), StarNot({ ESC }), Lit(ESC), Lit("\\") >>
Recognized == { DeviceAttributes, CursorReport, OscBel, OscST } \cup ModeToggles

\* Text s holds a match of pattern pat.
Contains(pat, s) == \E i \in 1..Len(s) : MatchEnd(pat, 1, s, i) > 0

\* C20: whatever chunk goes in, what the filter returns holds no complete
\* Device-Attributes response, cursor-position report, listed mode toggle or
\* OSC sequence; and the bracketed-paste toggle followed by hello comes out
\* as hello.
C20_NoResidue ==
    filter_out # Unfiltered =>
      /\ \A pat \in Recognized : ~Contains(pat, filter_out)
      /\ filter_in = Paste \o Hello => filter_out = Hello

\* Visible text around a sequence: none, or hello.
Around == { << >>, Hello }

\* C21: an OSC sequence that arrives whole in a chunk, ended by BEL or by
\* ESC and one backslash, is removed and the text around it is what the
\* filter returns.
C21_OscRemoved ==
    filter_out # Unfiltered =>
      \A osc \in { TitleBel, TitleST }, before \in Around, after \in Around :
        filter_in = before \o osc \o after => filter_out = before \o after

\* 1 while a reader is between its append and its log write, else 0.
LogPending == IF \E k \in 1..Len(threads) : threads[k].pc = "log" THEN 1 ELSE 0

\* C22: a log write that fails is swallowed by the reader. The step leaves
\* the buffer as it is, with the chunk whose write failed in it (last, when
\* no caller has drained meanwhile); the reader goes back to the top of its
\* loop, _running and is_alive() stay true; no caller's call ends in an
\* exception; and chunks read later are buffered and logged as before: at
\* any time every chunk appended under a log_path is in the log, or its
\* write failed, or its write is still to come.
C22_LogFailureSwallowed ==
    /\ [](\A u \in Users : outcome[u] \in { "none", "called", "ok" })
    /\ [](log_path => Len(logged) + failures + LogPending = Len(appended))
    /\ [][ (failures' # failures) =>
             \A k \in 1..Len(threads) :
               log_write_raises(k) =>
                 /\ _output_buffer' = _output_buffer
                 /\ appended[Len(appended)] = threads[k].data
                 /\ (returned = << >> /\ \A u \in Users : spc[u] = "idle") =>
                      _output_buffer[Len(_output_buffer)] = threads[k].data
                 /\ threads'[k].pc = "loop"
                 /\ _running'
                 /\ is_alive(Self)'
                 /\ outcome' = outcome
                 /\ logged' = logged ]_vars
    /\ [][ (logged' # logged) =>
             \A k \in 1..Len(threads) :
               log_write(k) =>
                 /\ logged' = Append(logged, appended[Len(appended)])
                 /\ _output_buffer' = _output_buffer ]_vars

\* The first chunk's log write failed; the reader went on, and the second
\* chunk is in the buffer behind the first, and in the log.
C22_Witness ==
    /\ failures = 1
    /\ Len(appended) = 2
    /\ _output_buffer = appended
    /\ logged = << appended[2] >>
    /\ is_alive(Self)
    /\ \A u \in Users : outcome[u] \in { "none", "ok" }

\* _filter_output on each text the Driver may return.
Filtered == [ data \in DriverData |-> _filter_output(data) ]

\* What the reader makes of a sequence of Driver reads: each one filtered,
\* those that filter to nothing left out.
RECURSIVE FilteredReads(_)
FilteredReads(datas) ==
    IF datas = << >> THEN << >>
    ELSE IF Filtered[Head(datas)] = << >>
         THEN FilteredReads(Tail(datas))
         ELSE << Filtered[Head(datas)] >> \o FilteredReads(Tail(datas))

\* The Driver reads the reader is through with: all but one it still holds.
Processed ==
    IF \E k \in 1..Len(threads) : threads[k].pc = "filter" THEN Front(driven) ELSE driven

\* C23: the reader keeps the Driver's order. The chunks ever appended to the
\* buffer are the filtered non-empty Driver reads, in the order they were
\* read; so are the chunks in the log when no log write has failed (but for
\* one whose write is still to come); a read that returns nothing, or that
\* filters to nothing, adds to neither.
C23_DriverOrder ==
    /\ [](appended = FilteredReads(Processed))
    /\ []((log_path /\ failures = 0) =>
            logged = IF LogPending = 1 THEN Front(appended) ELSE appended)
    /\ [](~log_path => logged = << >>)
    /\ [][ \A k \in 1..Len(threads) :
             \/ logged_read(k, << >>)
             \/ (threads[k].pc = "filter" /\ Filtered[threads[k].data] = << >>
                 /\ logged_append(k))
             => UNCHANGED << appended, _output_buffer, logged >> ]_vars

\* The Driver returned a, then a cursor-save sequence, then b: a and b, in
\* that order, are what was appended and what is in the log.
C23_Witness ==
    /\ driven = << << "a" >>, << ESC, "[", "s" >>, << "b" >> >>
    /\ appended = << << "a" >>, << "b" >> >>
    /\ logged = appended
    /\ failures = 0

\* The reader threads that are in their loop: started and not ended.
ActiveReaders == { k \in 1..Len(threads) : threads[k].pc \in { "loop", "read", "filter" } }

\* C24: whatever the interleaving of start() and close() calls, two
\* concurrent start() calls and a start() after a close() whose join timed
\* out included, at most one reader thread of the session is active and
\* may append to its buffer.
C24_OneReader == Cardinality(ActiveReaders) <= 1

\* C25: with kills by other callers in between, a command request records
\* its command only in the history of the session whose TerminalAPI object
\* it holds and sends the command to, and the request that has recorded
\* goes on to write the command to that session's Driver.
C25_RecordsWhereItSends ==
    [][ \A h \in Clients :
          /\ (At(h, "command", "record") /\ _history' # _history) =>
               \A sid \in Keys(_history) \cap Keys(_history') :
                 Get(_history', sid) # Get(_history, sid) =>
                   Get(_sessions, sid) = req[h].session
          /\ (At(h, "command", "send") /\ req'[h] # req[h]) =>
               Get(terminals, req[h].session)._running ]_vars

\* C26: with close() calls running beside it, a write or a send_command
\* that got past its NotRunning check writes its text to the Driver handle
\* the session still holds; no such call finds the handle released and ends
\* in the AttributeError of a None dereference.
C26_WriteOrNotRunning ==
    /\ [](\A u \in Users : outcome[u] # "AttributeError")
    /\ [][ \A u \in Users :
             (spc[u] \in { "write_pty", "send_write" } /\ spc'[u] # spc[u]) =>
               /\ process # 0
               /\ Len(written') = Len(written) + 1 ]_vars

\* C27: what get_history returned is a snapshot. A record_command that comes
\* after it leaves the list the caller holds as it was returned, and a
\* caller that appends to the list it holds changes no history of the
\* registry.
C27_Snapshot ==
    [][ /\ (recorded' # recorded) =>
             \A c \in Callers : Items(held[c])' = Items(held[c])
        /\ (_history' # _history) =>
             ~ \E c \in Callers, item \in CallerItems : caller_appends(c, item) ]_vars

====
